---------------------------- MODULE Spec2Model ----------------------------
(***************************************************************************)
(* Model of libcretonne's `Type`: the one-byte SSA value type tag of       *)
(* cranelift/src/libcretonne/types.rs.                                     *)
(*                                                                         *)
(* A `Type` is a u8: the low nibble is the lane type, the high nibble is   *)
(* log2 of the number of lanes.  The model holds one `Type` value that a   *)
(* client derives from a predefined constant by calling by(n) and          *)
(* half_vector(), and renders with Display::fmt.  A failed `assert!`,      *)
(* `debug_assert!` or `panic!` ends the run (status = "panicked").         *)
(*                                                                         *)
(* `debug_assert!` is compiled only into builds with debug assertions, so  *)
(* the build profile is part of the state: debug_assertions is chosen at   *)
(* Init and never changes.                                                 *)
(***************************************************************************)
EXTENDS Integers, Sequences, FiniteSets, TLC

VARIABLES
    debug_assertions,  \* cfg!(debug_assertions) of the build
    ty,                \* the u8 inside the current Type
    status,            \* "ok", or "panicked" once a call has panicked
    prev,              \* the call before the last one
    last,              \* the last call: [op, arg, recv]
    out                \* what the last fmt wrote ("" if none)

vars == <<debug_assertions, ty, status, prev, last, out>>

-----------------------------------------------------------------------------
(* Bounds of the model *)

\* by(n) is tried with every n in 0..MaxSmallFactor, besides the powers of two
\* and the other u16 values of Factors.
MaxSmallFactor == 12

-----------------------------------------------------------------------------
(* The predefined constants *)

VOID == 0
I8 == 1
I16 == 2
I32 == 3
I64 == 4
F32 == 5
F64 == 6
B1 == 7
B8 == 8
B16 == 9
B32 == 10
B64 == 11

Constants == {VOID, I8, I16, I32, I64, F32, F64, B1, B8, B16, B32, B64}

-----------------------------------------------------------------------------
(* Integer helpers of the standard library *)

RECURSIVE Pow2(_)
\* 1 << k
Pow2(k) == IF k = 0 THEN 1 ELSE 2 * Pow2(k - 1)

\* u16::is_power_of_two: exactly one bit set
IsPowerOfTwo(n) == \E k \in 0..15 : n = Pow2(k)

RECURSIVE TrailingZeros(_)
\* u16::trailing_zeros: 16 for 0
TrailingZeros(n) ==
    IF n = 0 THEN 16
    ELSE IF n % 2 = 1 THEN 0
    ELSE 1 + TrailingZeros(n \div 2)

DigitChars == <<"0", "1", "2", "3", "4", "5", "6", "7", "8", "9">>

RECURSIVE Decimal(_)
\* Display of an unsigned integer
Decimal(n) ==
    IF n < 10 THEN DigitChars[n + 1]
    ELSE Decimal(n \div 10) \o DigitChars[(n % 10) + 1]

-----------------------------------------------------------------------------
(* impl Type *)

\* Mutant of LaneType: the mask 0x07 in place of 0x0f.
LaneType_Mask7(t) == t % 8

\* Type(self.0 & 0x0f)
LaneType(t) == t % 16

LaneBits(t) ==
    CASE LaneType(t) = B1 -> 1
      [] LaneType(t) \in {B8, I8} -> 8
      [] LaneType(t) \in {B16, I16} -> 16
      [] LaneType(t) \in {B32, I32, F32} -> 32
      [] LaneType(t) \in {B64, I64, F64} -> 64
      [] OTHER -> 0

IsVoid(t) == t = VOID

IsBool(t) == t \in {B1, B8, B16, B32, B64}

IsInt(t) == t \in {I8, I16, I32, I64}

IsFloat(t) == t \in {F32, F64}

\* self.0 >> 4
Log2LaneCount(t) == t \div 16

IsScalar(t) == Log2LaneCount(t) = 0

\* Mutant of LaneCount: log2 of the lane count in place of the lane count.
LaneCount_Log2(t) == t \div 16

\* 1 << self.log2_lane_count(), a u16
LaneCount(t) == Pow2(Log2LaneCount(t))

\* The outcome of a call that returns a Type: the value, or a panic.
Returned(t) == [panic |-> FALSE, ty |-> t]
Panicked == [panic |-> TRUE, ty |-> 0]

\* Mutant of By: the lane limit of the last assertion is 0x100, not 0x90.
By_NoLaneLimit(dbg, t, n) ==
    IF dbg /\ ~(LaneBits(t) > 0) THEN Panicked
    ELSE IF dbg /\ ~IsPowerOfTwo(n) THEN Panicked
    ELSE LET log2_lanes == TrailingZeros(n)
             new_type == t + log2_lanes * 16
         IN  IF ~(new_type < 256) THEN Panicked
             ELSE Returned(new_type % 256)

\* Mutant of By: the new lanes nibble replaces the receiver's instead of
\* adding to it.
By_ReplaceLanes(dbg, t, n) ==
    IF dbg /\ ~(LaneBits(t) > 0) THEN Panicked
    ELSE IF dbg /\ ~IsPowerOfTwo(n) THEN Panicked
    ELSE LET log2_lanes == TrailingZeros(n)
             new_type == (t % 16) + log2_lanes * 16
         IN  IF ~(new_type < 144) THEN Panicked
             ELSE Returned(new_type % 256)

\* Type::by in a build whose debug assertions are `dbg`
By(dbg, t, n) ==
    IF dbg /\ ~(LaneBits(t) > 0) THEN Panicked
    ELSE IF dbg /\ ~IsPowerOfTwo(n) THEN Panicked
    ELSE LET log2_lanes == TrailingZeros(n)
             new_type == t + log2_lanes * 16
         IN  IF ~(new_type < 144) THEN Panicked
             ELSE Returned(new_type % 256)

\* Mutant of HalfVector: subtracts 0x20, which quarters the vector.
HalfVector_Quarter(t) ==
    IF ~(~IsScalar(t)) THEN Panicked
    ELSE Returned((t - 32) % 256)

\* Mutant of HalfVector: no assertion, the u8 subtraction wraps.
HalfVector_NoAssert(t) == Returned((t - 16) % 256)

\* Type::half_vector
HalfVector(t) ==
    IF ~(~IsScalar(t)) THEN Panicked
    ELSE Returned(t - 16)

\* The outcome of Display::fmt: the text written, or a panic.
Written(s) == [panic |-> FALSE, text |-> s]
FmtPanicked == [panic |-> TRUE, text |-> ""]

RECURSIVE Fmt(_)
Fmt(t) ==
    IF IsVoid(t) THEN Written("void")
    ELSE IF IsBool(t) THEN Written("b" \o Decimal(LaneBits(t)))
    ELSE IF IsInt(t) THEN Written("i" \o Decimal(LaneBits(t)))
    ELSE IF IsFloat(t) THEN Written("f" \o Decimal(LaneBits(t)))
    ELSE IF ~IsScalar(t) THEN
        LET lane == Fmt(LaneType(t))
        IN  IF lane.panic THEN FmtPanicked
            ELSE Written(lane.text \o "x" \o Decimal(LaneCount(t)))
    ELSE FmtPanicked

-----------------------------------------------------------------------------
(* The client: one Type value, derived and rendered call by call *)

\* The u16 arguments by(n) is called with: every power of two, every n up to
\* MaxSmallFactor, a non-power of two with each number of trailing zeros, and
\* the largest u16.
Factors ==
    {Pow2(k) : k \in 0..15} \cup (0..MaxSmallFactor)
        \cup {3 * Pow2(k) : k \in 0..14} \cup {65535}

NoCall == [op |-> "none", arg |-> 0, recv |-> 0]

Init ==
    /\ debug_assertions \in BOOLEAN
    /\ ty \in Constants
    /\ status = "ok"
    /\ prev = NoCall
    /\ last = NoCall
    /\ out = ""

\* ty = ty.by(n)
CallBy(n) ==
    /\ status = "ok"
    /\ LET r == By(debug_assertions, ty, n)
       IN  /\ status' = IF r.panic THEN "panicked" ELSE "ok"
           /\ ty' = IF r.panic THEN ty ELSE r.ty
    /\ prev' = last
    /\ last' = [op |-> "by", arg |-> n, recv |-> ty]
    /\ out' = ""
    /\ UNCHANGED debug_assertions

\* ty = ty.half_vector()
CallHalfVector ==
    /\ status = "ok"
    /\ LET r == HalfVector(ty)
       IN  /\ status' = IF r.panic THEN "panicked" ELSE "ok"
           /\ ty' = IF r.panic THEN ty ELSE r.ty
    /\ prev' = last
    /\ last' = [op |-> "half_vector", arg |-> 0, recv |-> ty]
    /\ out' = ""
    /\ UNCHANGED debug_assertions

\* format!("{}", ty)
CallFmt ==
    /\ status = "ok"
    /\ LET r == Fmt(ty)
       IN  /\ status' = IF r.panic THEN "panicked" ELSE "ok"
           /\ out' = r.text
    /\ prev' = last
    /\ last' = [op |-> "fmt", arg |-> 0, recv |-> ty]
    /\ UNCHANGED <<debug_assertions, ty>>

Next ==
    \/ \E n \in Factors : CallBy(n)
    \/ CallHalfVector
    \/ CallFmt

Spec == Init /\ [][Next]_vars

\* A Type holding any byte (hand-constructed or corrupted), rendered.
InitAny ==
    /\ debug_assertions \in BOOLEAN
    /\ ty \in 0..255
    /\ status = "ok"
    /\ prev = NoCall
    /\ last = NoCall
    /\ out = ""

NextAny == CallFmt

SpecAny == InitAny /\ [][NextAny]_vars

-----------------------------------------------------------------------------
(* Vocabulary of the properties *)

\* The three data-model invariants of a tag: log2 lane count in 0..8, base
\* code one of the predefined codes, and void only with one lane.
ValidTag(t) ==
    /\ (t \div 16) \in 0..8
    /\ (t % 16) \in 0..11
    /\ ((t % 16) = 0 => (t \div 16) = 0)

PowersOfTwo == {1, 2, 4, 8, 16, 32, 64, 128, 256, 512, 1024, 2048, 4096,
                8192, 16384, 32768}

\* log2 of a power of two
Log2Of(n) == CHOOSE k \in 0..15 : Pow2(k) = n

NonVoidConstants == {I8, I16, I32, I64, F32, F64, B1, B8, B16, B32, B64}

\* The renderings of the external interface table, by base code 1..11.
ScalarName ==
    <<"i8", "i16", "i32", "i64", "f32", "f64", "b1", "b8", "b16", "b32", "b64">>

\* The lane counts of the vector grammar, by log2 lane count 1..8.
LaneCountName == <<"2", "4", "8", "16", "32", "64", "128", "256">>

LaneName(b) == IF b = 0 THEN "void" ELSE ScalarName[b]

\* The canonical rendering of a tag with base code 0..11 and 1..256 lanes.
Canonical(t) ==
    IF (t \div 16) = 0 THEN LaneName(t % 16)
    ELSE LaneName(t % 16) \o "x" \o LaneCountName[t \div 16]

\* The tags with a predefined base code and at most 256 lanes.
ShapedTags == {u \in 0..255 : (u % 16) \in 0..11 /\ (u \div 16) \in 0..8}

-----------------------------------------------------------------------------
(* The properties *)

\* C1: every tag reachable from the twelve predefined constants by
\* successful by(n) and half_vector() calls satisfies the three data-model
\* invariants (lanes nibble in 0..8, base code in 0..11, void only scalar).
C1_ReachableTagsValid == ValidTag(ty)

\* C2: rendering a structurally invalid tag (base code not in 0..11, or
\* lanes nibble above 8, or void with a nonzero lanes nibble) always panics
\* and never produces a string.
C2_InvalidTagFmtPanics ==
    (last.op = "fmt" /\ ~ValidTag(last.recv)) => status = "panicked"

\* C3: for a valid non-void tag T and a power of two n in 1..32768, T.by(n)
\* panics exactly when log2_lane_count(T) + log2(n) > 8; otherwise it returns
\* the tag with T's base code and n * lane_count(T) lanes, so for scalar T
\* lane_type is T and lane_count is n, and T.by(1) = T.
C3_ByFailsExactlyAbove256Lanes ==
    (/\ last.op = "by"
     /\ ValidTag(last.recv)
     /\ (last.recv % 16) # 0
     /\ last.arg \in PowersOfTwo)
    => LET T == last.recv
           n == last.arg
       IN  IF (T \div 16) + Log2Of(n) > 8
           THEN status = "panicked"
           ELSE /\ status = "ok"
                /\ (ty % 16) = (T % 16)
                /\ LaneCount(ty) = n * LaneCount(T)
                /\ (ty \div 16) = (T \div 16) + Log2Of(n)
                /\ ((T \div 16) = 0 => LaneType(ty) = T /\ LaneCount(ty) = n)
                /\ (n = 1 => ty = T)

\* C3's case: a vector built by by(4) from a scalar, then multiplied again by
\* a power of two that takes it above 256 lanes, which panics.
C3_Witness ==
    /\ prev.op = "by" /\ prev.arg = 4 /\ (prev.recv \div 16) = 0
    /\ last.op = "by" /\ last.arg = 128 /\ (last.recv \div 16) = 2
    /\ status = "panicked"

\* C4: for every valid tag T and every u16 n that is not a power of two
\* (0 included), T.by(n) panics and never returns a tag.
C4_NonPowerOfTwoFails ==
    (/\ last.op = "by"
     /\ ValidTag(last.recv)
     /\ last.arg \notin PowersOfTwo)
    => status = "panicked"

\* C5: VOID.by(n) panics for every factor n, n = 1 included; it never
\* returns a tag.
C5_VoidByFails ==
    (last.op = "by" /\ last.recv = VOID) => status = "panicked"

\* C6: for a non-void scalar constant T and powers of two a, b with
\* a * b <= 256, T.by(a).by(b) and T.by(a*b) both succeed and are the same
\* tag, and so is T.by(b).by(a).
C6_ByComposes ==
    (/\ prev.op = "by" /\ last.op = "by"
     /\ prev.recv \in NonVoidConstants
     /\ prev.arg \in PowersOfTwo /\ last.arg \in PowersOfTwo
     /\ prev.arg * last.arg <= 256)
    => LET T == prev.recv
           a == prev.arg
           b == last.arg
       IN  /\ status = "ok"
           /\ ty = T + 16 * Log2Of(a * b)
           /\ By(debug_assertions, T, a * b) = Returned(ty)
           /\ ~By(debug_assertions, T, b).panic
           /\ By(debug_assertions, By(debug_assertions, T, b).ty, a)
                = Returned(ty)

\* C6's case: two successive multiplications by factors above 1.
C6_Witness ==
    /\ prev.op = "by" /\ prev.recv = B32 /\ prev.arg = 4
    /\ last.op = "by" /\ last.arg = 2
    /\ status = "ok" /\ ty = B32 + 48

\* C7: for a non-void scalar constant T and a power of two n in 2..256,
\* T.by(n).half_vector() succeeds and equals T.by(n/2); T.by(2).half_vector()
\* is T; the base code is unchanged and log2 lane count drops by one.
C7_HalfVectorInvertsDoubling ==
    (/\ prev.op = "by" /\ last.op = "half_vector"
     /\ prev.recv \in NonVoidConstants
     /\ prev.arg \in PowersOfTwo
     /\ 2 <= prev.arg /\ prev.arg <= 256)
    => LET T == prev.recv
           n == prev.arg
       IN  /\ status = "ok"
           /\ By(debug_assertions, T, n \div 2) = Returned(ty)
           /\ (n = 2 => ty = T)
           /\ (ty % 16) = (last.recv % 16)
           /\ (ty \div 16) = (last.recv \div 16) - 1

\* C7's case: F64.by(256).half_vector() has 128 lanes of F64.
C7_Witness ==
    /\ prev.op = "by" /\ prev.recv = F64 /\ prev.arg = 256
    /\ last.op = "half_vector"
    /\ status = "ok" /\ ty = F64 + 16 * 7

\* C8: half_vector() on a scalar tag (a predefined constant, or a vector
\* halved down to one lane) panics and returns nothing; the byte does not
\* underflow into another tag.
C8_HalfVectorOfScalarFails ==
    (last.op = "half_vector" /\ (last.recv \div 16) = 0)
    => (status = "panicked" /\ ty = last.recv)

\* C8's case: a two-lane vector halved to one lane, then halved again.
C8_Witness ==
    /\ prev.op = "half_vector" /\ (prev.recv \div 16) = 1
    /\ last.op = "half_vector" /\ (last.recv \div 16) = 0
    /\ status = "panicked"

\* C9: on every tag reachable from the constants by successful by and
\* half_vector calls, fmt does not panic and writes "void" for VOID, the
\* family letter and lane bits for a scalar, and for a vector the lane type's
\* rendering, "x" and the lane count, which is one of 2, 4, ..., 256; the
\* result of by(1) on a scalar renders as that scalar, without "x1".
C9_FmtTotalAndCanonical ==
    (last.op = "fmt")
    => /\ status = "ok"
       /\ ty \in ShapedTags
       /\ out = Canonical(ty)
       /\ (ty = VOID => out = "void")
       /\ (IsBool(ty) => out = "b" \o Decimal(LaneBits(ty)))
       /\ (IsInt(ty) => out = "i" \o Decimal(LaneBits(ty)))
       /\ (IsFloat(ty) => out = "f" \o Decimal(LaneBits(ty)))
       /\ ((prev.op = "by" /\ prev.arg = 1 /\ (prev.recv \div 16) = 0)
            => out = LaneName(prev.recv))

\* C9's case: a vector obtained by two multiplications, rendered.
C9_Witness ==
    /\ prev.op = "by" /\ prev.recv = B32 + 32 /\ prev.arg = 2
    /\ last.op = "fmt" /\ status = "ok" /\ out = "b32x8"

\* C10: rendering is injective on the reachable tags: no other tag with a
\* predefined base code and at most 256 lanes renders to the text written
\* for the current tag.
C10_FmtInjective ==
    (last.op = "fmt" /\ status = "ok")
    => \A u \in ShapedTags :
          (~Fmt(u).panic /\ Fmt(u).text = out) => u = ty

\* C10's case: a vector whose lane bits and lane count are both shared with
\* other tags (i32x8 against f32x8 and b32x8), rendered.
C10_Witness ==
    /\ last.op = "fmt" /\ status = "ok" /\ ty = I32 + 48 /\ out = "i32x8"

=============================================================================
